---------------------------- MODULE Spec2Model ----------------------------
(***************************************************************************)
(* Organize_Files_By_Framework_IntegrateJoplin.py as a state machine.      *)
(*                                                                         *)
(* Paths, file names, keywords and the rollback log are strings, read      *)
(* character by character (a string is a sequence of characters), so that  *)
(* substring matching, the formatting of a rollback line and the shell's   *)
(* reading of it are computed as the program and /bin/sh compute them.     *)
(***************************************************************************)
EXTENDS Integers, Sequences, FiniteSets, TLC

(***************************************************************************)
(* Bounds of the model.                                                    *)
(***************************************************************************)
\* files present in the walked directory tree
MaxFiles == 2
\* invocations of the script's __main__ (classification runs)
MaxRuns == 1
\* invocations of rollback()
MaxRollbacks == 1

(***************************************************************************)
(* Strings.                                                                *)
(***************************************************************************)
Quote == "'"
Space == " "
Slash == "/"
NewLine == "\n"

Char(s, i) == SubSeq(s, i, i)

Upper == "ABCDEFGHIJKLMNOPQRSTUVWXYZ"
Lower == "abcdefghijklmnopqrstuvwxyz"

\* str.lower() on one character
LowerChar(c) ==
    IF \E i \in 1..Len(Upper) : Char(Upper, i) = c
    THEN Char(Lower, CHOOSE i \in 1..Len(Upper) : Char(Upper, i) = c)
    ELSE c

\* str.lower()
RECURSIVE lower(_)
lower(s) == IF s = "" THEN "" ELSE LowerChar(Head(s)) \o lower(Tail(s))

\* the Python test `needle in hay` on strings
Contains(needle, hay) ==
    \E i \in 0..(Len(hay) - Len(needle)) :
        SubSeq(hay, i + 1, i + Len(needle)) = needle

HasSlash(path) == \E i \in 1..Len(path) : Char(path, i) = Slash

LastSlash(path) ==
    CHOOSE i \in 1..Len(path) :
        /\ Char(path, i) = Slash
        /\ \A j \in (i + 1)..Len(path) : Char(path, j) # Slash

\* os.path.basename
basename(path) ==
    IF HasSlash(path) THEN SubSeq(path, LastSlash(path) + 1, Len(path))
    ELSE path

\* os.path.dirname (no path of the model ends in a slash)
dirname(path) ==
    IF HasSlash(path) THEN SubSeq(path, 1, LastSlash(path) - 1) ELSE ""

\* os.path.join(folder, name) for a relative name
join(folder, name) == folder \o Slash \o name

(***************************************************************************)
(* Configuration: lines 20-34.                                             *)
(***************************************************************************)
BASE_DIR == "/home/dan/Business"
DEST_DIR == BASE_DIR \o "/Compliance_Frameworks"
\* line 145: the directory __main__ walks
TEST_DIR == "/home/dan/Business/BanksArchive/SSB_ProjectMgmt"

\* the catalog with the ISO keyword spelled with an underscore
FRAMEWORKS_underscore ==
    << [framework |-> "FFIEC",
        keywords |-> <<"ffiec", "federal financial institutions">>],
       [framework |-> "NIST",
        keywords |-> <<"nist", "cybersecurity framework">>],
       [framework |-> "ISO",
        keywords |-> <<"iso_27001", "international standards organization">>],
       [framework |-> "FTC",
        keywords |-> <<"ftc safeguard", "federal trade commission">>],
       [framework |-> "GLBA",
        keywords |-> <<"glba", "gramm-leach-bliley">>],
       [framework |-> "CIS",
        keywords |-> <<"cis controls", "center for internet security">>] >>

\* lines 27-34: the dict FRAMEWORKS, in its insertion (= iteration) order
FRAMEWORKS ==
    << [framework |-> "FFIEC",
        keywords |-> <<"ffiec", "federal financial institutions">>],
       [framework |-> "NIST",
        keywords |-> <<"nist", "cybersecurity framework">>],
       [framework |-> "ISO",
        keywords |-> <<"iso 27001", "international standards organization">>],
       [framework |-> "FTC",
        keywords |-> <<"ftc safeguard", "federal trade commission">>],
       [framework |-> "GLBA",
        keywords |-> <<"glba", "gramm-leach-bliley">>],
       [framework |-> "CIS",
        keywords |-> <<"cis controls", "center for internet security">>] >>

\* line 76: any(keyword.lower() in file_name.lower() for keyword in keywords)
Matches(entry, file_name) ==
    LET name == lower(file_name)
    IN  \E k \in 1..Len(entry.keywords) :
            Contains(lower(entry.keywords[k]), name)

RECURSIVE MatchFrom(_, _)
MatchFrom(i, file_name) ==
    IF i > Len(FRAMEWORKS) THEN <<>>
    ELSE (IF Matches(FRAMEWORKS[i], file_name)
          THEN <<FRAMEWORKS[i].framework>> ELSE <<>>)
         \o MatchFrom(i + 1, file_name)

\* lines 72-77: the list matched_frameworks, in catalog order
matched_frameworks(file_name) == MatchFrom(1, file_name)

\* line 81
dest_folder(framework) == DEST_DIR \o Slash \o framework

\* line 83
dest_path(framework, file_name) == join(dest_folder(framework), file_name)

(***************************************************************************)
(* The file system: fs maps the path of every regular file to its content, *)
(* dirs is the set of directories.                                         *)
(***************************************************************************)
Put(f, path, data) ==
    [q \in (DOMAIN f) \cup {path} |-> IF q = path THEN data ELSE f[q]]

Remove(f, path) == [q \in (DOMAIN f) \ {path} |-> f[q]]

\* the directories above a path, the root excluded
Ancestors(path) ==
    {SubSeq(path, 1, i - 1) :
        i \in {j \in 2..Len(path) : Char(path, j) = Slash}}

\* what mv does to a regular file: the target gets the content, the source
\* is gone
rename(f, src, dst) == Put(Remove(f, src), dst, f[src])

\* shutil.move in the place of shutil.copy2: the source does not survive
shutil_move(f, src, dst) == Put(Remove(f, src), dst, f[src])

\* line 86: shutil.copy2(src, dst) when it succeeds; dst gets the content of
\* src (and its metadata, which the model does not separate from content)
copy2(f, src, dst) == Put(f, dst, f[src])

\* lines 37-45: ensure_dir; os.makedirs creates the missing parents too
ensure_dir(d, directory) ==
    IF directory \in d THEN d
    ELSE d \cup {directory} \cup Ancestors(directory)

\* content of a destination file that a failed write left truncated
Truncated == 0

(***************************************************************************)
(* The rollback log as text, and the shell that rollback() hands it to.    *)
(***************************************************************************)
\* line 61: the text log_action appends to ROLLBACK_LOG
rollback_line(src, dest) ==
    "mv '" \o dest \o "' '" \o src \o "'" \o NewLine

HasNewLine(text) == \E i \in 1..Len(text) : Char(text, i) = NewLine

FirstNewLine(text) ==
    CHOOSE i \in 1..Len(text) :
        /\ Char(text, i) = NewLine
        /\ \A j \in 1..(i - 1) : Char(text, j) # NewLine

\* line 132: file.readlines(); every line keeps its line break
RECURSIVE readlines(_)
readlines(text) ==
    LET n == FirstNewLine(text)
    IN  IF text = "" THEN <<>>
        ELSE IF ~HasNewLine(text) THEN <<text>>
        ELSE <<SubSeq(text, 1, n)>> \o readlines(SubSeq(text, n + 1, Len(text)))

\* line 134: reversed(commands)
reversed(s) == [i \in 1..Len(s) |-> s[Len(s) + 1 - i]]

IsSpace(c) == c \in {Space, NewLine}

\* line 135: str.strip() drops the white space at both ends
strip(s) ==
    IF \A i \in 1..Len(s) : IsSpace(Char(s, i)) THEN ""
    ELSE LET leading == CHOOSE k \in 0..Len(s) :
                            /\ \A j \in 1..k : IsSpace(Char(s, j))
                            /\ ~IsSpace(Char(s, k + 1))
             trailing == CHOOSE k \in 0..Len(s) :
                             /\ \A j \in 1..k : IsSpace(Char(s, Len(s) + 1 - j))
                             /\ ~IsSpace(Char(s, Len(s) - k))
         IN  SubSeq(s, leading + 1, Len(s) - trailing)

(* How sh splits a command line into words, for the characters of the     *)
(* model (letters, digits, '_', '.', '/', space, single quote): a single   *)
(* quote opens a literal stretch that the next single quote closes, the    *)
(* quotes themselves are dropped, adjacent stretches join into one word,   *)
(* and a space outside quotes ends a word.  A quote left open is a syntax  *)
(* error: sh runs nothing.                                                 *)
QuotePositions(s) == {i \in 1..Len(s) : Char(s, i) = Quote}

\* the ends of the words: the spaces outside every quoted stretch, and the
\* two ends of the line
WordBounds(s) ==
    LET quotes == QuotePositions(s)
    IN  {i \in 1..Len(s) :
            /\ IsSpace(Char(s, i))
            /\ Cardinality({q \in quotes : q < i}) % 2 = 0}
        \cup {0, Len(s) + 1}

\* a word without its quotes
RECURSIVE Unquote(_)
Unquote(s) ==
    LET quotes == QuotePositions(s)
        q == CHOOSE i \in quotes : \A j \in quotes : i <= j
    IN  IF quotes = {} THEN s
        ELSE SubSeq(s, 1, q - 1) \o Unquote(SubSeq(s, q + 1, Len(s)))

ShellWords(command) ==
    LET bounds == WordBounds(command)
        \* the bounds right before a word
        starts == {a \in bounds : a <= Len(command) /\ (a + 1) \notin bounds}
        Nth(n) == CHOOSE a \in starts :
                      Cardinality({x \in starts : x < a}) = n - 1
        End(a) == CHOOSE b \in bounds :
                      b > a /\ \A c \in bounds : c > a => b <= c
    IN  [ok |-> Cardinality(QuotePositions(command)) % 2 = 0,
         words |->
            [n \in 1..Cardinality(starts) |->
                Unquote(SubSeq(command, Nth(n) + 1, End(Nth(n)) - 1))]]

(* mv of one regular file.  A target that is a directory receives the     *)
(* file under its own name.  It fails, changing nothing, when the source   *)
(* is no regular file, when source and target are the same file, or when   *)
(* the target's directory does not exist.                                  *)
MvTarget(d, src, dst) == IF dst \in d THEN join(dst, basename(src)) ELSE dst

MvFile(f, d, src, dst) ==
    IF \/ src \notin DOMAIN f
       \/ MvTarget(d, src, dst) = src
       \/ MvTarget(d, src, dst) \in d
       \/ dirname(MvTarget(d, src, dst)) \notin d
    THEN [fs |-> f, status |-> 1]
    ELSE [fs |-> rename(f, src, MvTarget(d, src, dst)), status |-> 0]

\* mv SOURCE... DIRECTORY: every source is tried, one failure fails the command
RECURSIVE MvInto(_, _, _, _)
MvInto(f, d, sources, directory) ==
    IF sources = <<>> THEN [fs |-> f, status |-> 0]
    ELSE LET first == MvFile(f, d, Head(sources), directory)
             rest == MvInto(first.fs, d, Tail(sources), directory)
         IN  [fs |-> rest.fs,
              status |-> IF first.status = 0 THEN rest.status ELSE 1]

\* the mv command with its operands
mv(f, d, operands) ==
    IF Len(operands) < 2 THEN [fs |-> f, status |-> 1]
    ELSE IF Len(operands) = 2 THEN MvFile(f, d, operands[1], operands[2])
    ELSE IF operands[Len(operands)] \notin d THEN [fs |-> f, status |-> 1]
    ELSE MvInto(f, d, SubSeq(operands, 1, Len(operands) - 1),
                operands[Len(operands)])

(* line 135: os.system(command) runs sh -c command and returns its exit    *)
(* status: 2 for a syntax error, 127 for an unknown command, mv's status   *)
(* otherwise.  Every non-zero status comes with a diagnostic that sh or mv *)
(* writes to the terminal.                                                 *)
os_system(f, d, command) ==
    LET sh == ShellWords(command)
    IN  IF ~sh.ok THEN [fs |-> f, status |-> 2]
        ELSE IF sh.words = <<>> THEN [fs |-> f, status |-> 0]
        ELSE IF Head(sh.words) # "mv" THEN [fs |-> f, status |-> 127]
        ELSE mv(f, d, Tail(sh.words))

\* what subprocess.check_call would do: a non-zero status is an exception
check_call_raises(status) == status # 0

\* line 135: os.system returns the status, which rollback() discards; a
\* failed command raises nothing
os_system_raises(status) == FALSE

(***************************************************************************)
(* The files the walked tree may hold.  The content of a source file is    *)
(* its index in SourceFiles, so that different files differ in content.    *)
(***************************************************************************)
Old == TEST_DIR \o "/old"

SourceFiles ==
    << join(TEST_DIR, "iso_27001_and_nist_policy.docx"),
       join(TEST_DIR, "random_notes.txt"),
       join(TEST_DIR, "nist_glba_map.txt"),
       join(TEST_DIR, "Dan's_FFIEC_Q3_Report.pdf"),
       join(Old, "nist_glba_map.txt") >>

ContentOf(path) == CHOOSE i \in 1..Len(SourceFiles) : SourceFiles[i] = path

IsUnder(path, directory) ==
    /\ Len(path) > Len(directory) + 1
    /\ SubSeq(path, 1, Len(directory) + 1) = directory \o Slash

(* os.walk is top-down: the files of base_dir itself come before those of *)
(* its subdirectories.  Within one directory the order is the one the file *)
(* system lists it in: any order, the same at every walk.                  *)
WalkOrders(paths, base_dir) ==
    {order \in [1..Cardinality(paths) -> paths] :
        /\ \A i, j \in 1..Cardinality(paths) : i # j => order[i] # order[j]
        /\ \A i, j \in 1..Cardinality(paths) :
              dirname(order[i]) = base_dir /\ dirname(order[j]) # base_dir
                  => i < j}

\* lines 121-123: the regular files os.walk finds under the walked directory
InTree(path) == IsUnder(path, TEST_DIR)

(***************************************************************************)
(* State.  The files and the two logs outlive the program; everything else *)
(* belongs to one invocation of the script (a classification run, lines    *)
(* 140-148, or a call of rollback()) and starts afresh with the next one.  *)
(***************************************************************************)
VARIABLES
    fs,            \* path -> content, the regular files
    dirs,          \* the directories
    log,           \* LOG_FILE: the audit entries, in the order written
    rollback_log,  \* ROLLBACK_LOG: its text
    console,       \* what the invocation and its child processes printed
    listing,       \* the order in which the file system lists the tree
    pc,            \* where the program is
    left,          \* files of the walk not yet handed to classify_file
    file_path,     \* classify_file's argument
    file_name,     \* line 71: os.path.basename(file_path)
    matched,       \* classify_file's matched_frameworks
    idx,           \* position of the loop of line 80 in matched
    commands,      \* rollback's commands (line 132)
    executed,      \* the commands rollback handed to os.system, with status
    result,        \* of the latest invocation: none | running | complete |
                   \* error | rolled_back | crashed | aborted
    callState,     \* the latest classify_file call: none | running |
                   \* returned | raised
    callCopies,    \* destinations that call has copied to, in order
    callLogStart,  \* Len(log) when that call began
    failure,       \* what ended the run early: none | copy | joplin
    fsAtRunStart,  \* fs when the latest run began
    runCopied,     \* destinations the latest run has copied to
    afterRun,      \* the rollback directly follows a run that completed
    runs,
    rollbacks

world == <<fs, dirs, listing>>
logs == <<log, rollback_log>>
call == <<file_path, file_name, matched, idx>>
callGhost == <<callState, callCopies, callLogStart>>
runGhost == <<fsAtRunStart, runCopied, afterRun>>
rb == <<commands, executed>>
counters == <<runs, rollbacks>>
vars == <<fs, dirs, listing, log, rollback_log, console, pc, left, file_path,
          file_name, matched,
          idx, commands, executed, result, callState, callCopies,
          callLogStart, failure, fsAtRunStart, runCopied, afterRun, runs,
          rollbacks>>

\* the locals of classify_file and process_files before any call
NoCall ==
    /\ left' = <<>>
    /\ file_path' = ""
    /\ file_name' = ""
    /\ matched' = <<>>
    /\ idx' = 1
    /\ callState' = "none"
    /\ callCopies' = <<>>
    /\ callLogStart' = 0
    /\ failure' = "none"

Init ==
    /\ \E T \in SUBSET (1..Len(SourceFiles)) :
          /\ Cardinality(T) >= 1
          /\ Cardinality(T) <= MaxFiles
          /\ fs = [path \in {SourceFiles[i] : i \in T} |-> ContentOf(path)]
    /\ dirs = UNION {Ancestors(path) : path \in DOMAIN fs}
    /\ listing \in WalkOrders(DOMAIN fs, TEST_DIR)
    /\ log = <<>>
    /\ rollback_log = ""
    /\ console = <<>>
    /\ pc = "idle"
    /\ left = <<>>
    /\ file_path = ""
    /\ file_name = ""
    /\ matched = <<>>
    /\ idx = 1
    /\ commands = <<>>
    /\ executed = <<>>
    /\ result = "none"
    /\ callState = "none"
    /\ callCopies = <<>>
    /\ callLogStart = 0
    /\ failure = "none"
    /\ fsAtRunStart = fs
    /\ runCopied = {}
    /\ afterRun = FALSE
    /\ runs = 0
    /\ rollbacks = 0

(***************************************************************************)
(* Classification: __main__, process_files, classify_file.                 *)
(***************************************************************************)
\* lines 140-145: the script is started; __main__ calls process_files on
\* the test directory
main ==
    /\ pc = "idle"
    /\ runs < MaxRuns
    /\ runs' = runs + 1
    /\ pc' = "walk"
    /\ result' = "running"
    /\ console' = <<>>
    /\ left' = SelectSeq(listing, InTree)
    /\ file_path' = ""
    /\ file_name' = ""
    /\ matched' = <<>>
    /\ idx' = 1
    /\ callState' = "none"
    /\ callCopies' = <<>>
    /\ callLogStart' = Len(log)
    /\ failure' = "none"
    /\ commands' = <<>>
    /\ executed' = <<>>
    /\ fsAtRunStart' = fs
    /\ runCopied' = {}
    /\ afterRun' = FALSE
    /\ UNCHANGED <<world, logs, rollbacks>>

\* lines 121-124 and 71-79: the walk hands its next file to classify_file,
\* which computes matched_frameworks
process_files ==
    /\ pc = "walk"
    /\ left # <<>>
    /\ left' = Tail(left)
    /\ file_path' = Head(left)
    /\ file_name' = basename(Head(left))
    /\ matched' = matched_frameworks(file_name')
    /\ pc' = IF matched' # <<>> THEN "copy" ELSE "tag"
    /\ idx' = 1
    /\ callState' = "running"
    /\ callCopies' = <<>>
    /\ callLogStart' = Len(log)
    /\ UNCHANGED <<world, logs, console, rb, result, failure, runGhost,
                   counters>>

\* line 146: the walk is over and process_files returns
complete ==
    /\ pc = "walk"
    /\ left = <<>>
    /\ pc' = "idle"
    /\ result' = "complete"
    /\ console' = Append(console, "File classification complete.")
    /\ UNCHANGED <<world, logs, left, call, rb, callGhost, failure, runGhost,
                   counters>>

\* the destination of the loop's current iteration (line 83), or the file
\* itself on the LEAVE branch (line 94)
dest ==
    IF matched = <<>> THEN file_path
    ELSE dest_path(matched[idx], file_name)

\* lines 147-148: an exception leaves classify_file and process_files and
\* is caught and printed by __main__; the walk is not resumed
Raise(kind) ==
    /\ pc' = "idle"
    /\ result' = "error"
    /\ callState' = "raised"
    /\ failure' = kind
    /\ console' = Append(console, "An error occurred")

\* lines 81-86: ensure_dir and shutil.copy2 succeed
copy ==
    /\ pc = "copy"
    /\ file_path \in DOMAIN fs
    /\ dest # file_path
    /\ dirs' = ensure_dir(dirs, dest_folder(matched[idx]))
    /\ fs' = copy2(fs, file_path, dest)
    /\ UNCHANGED listing
    /\ callCopies' = Append(callCopies, dest)
    /\ runCopied' = runCopied \cup {dest}
    /\ pc' = "tag"
    /\ UNCHANGED <<logs, console, left, call, rb, result, callState,
                   callLogStart, failure, fsAtRunStart, afterRun, counters>>

(* lines 82, 86: os.makedirs or shutil.copy2 raises OSError (permission   *)
(* denied, disk full, source missing, source and destination the same      *)
(* file).  The directory may or may not have been made, and a write that   *)
(* failed half way leaves the destination truncated.                       *)
copy_error ==
    /\ pc = "copy"
    /\ \/ UNCHANGED world
       \/ /\ file_path \in DOMAIN fs
          /\ dest # file_path
          /\ dirs' = ensure_dir(dirs, dest_folder(matched[idx]))
          /\ fs' = fs
          /\ UNCHANGED listing
       \/ /\ file_path \in DOMAIN fs
          /\ dest # file_path
          /\ dirs' = ensure_dir(dirs, dest_folder(matched[idx]))
          /\ fs' = Put(fs, dest, Truncated)
          /\ UNCHANGED listing
    /\ Raise("copy")
    /\ UNCHANGED <<logs, left, call, rb, callCopies, callLogStart, runGhost,
                   counters>>

(* lines 89, 93, 97-111: assign_joplin_tags returns: create_note,         *)
(* create_tag and add_tag_to_note were served.  The note service is an     *)
(* external collaborator; what it stores is not part of the model.         *)
assign_joplin_tags ==
    /\ pc = "tag"
    /\ pc' = "log_audit"
    /\ UNCHANGED <<world, logs, console, left, call, rb, result, callGhost,
                   failure, runGhost, counters>>

\* lines 107-111: create_note, create_tag or add_tag_to_note raises
assign_joplin_tags_error ==
    /\ pc = "tag"
    /\ Raise("joplin")
    /\ UNCHANGED <<world, logs, left, call, rb, callCopies, callLogStart,
                   runGhost, counters>>

\* lines 57-58: log_action appends the audit line (its time stamp left out)
log_action_audit ==
    /\ pc = "log_audit"
    /\ log' = Append(log, [action |-> IF matched = <<>> THEN "LEAVE" ELSE "COPY",
                           src |-> file_path,
                           dest |-> dest])
    /\ pc' = "log_rollback"
    /\ UNCHANGED <<world, rollback_log, console, left, call, rb, result,
                   callGhost, failure, runGhost, counters>>

\* lines 60-61: log_action appends the rollback line; then the loop of
\* line 80 goes on, or classify_file returns to the walk
log_action_rollback ==
    /\ pc = "log_rollback"
    /\ rollback_log' = rollback_log \o rollback_line(file_path, dest)
    /\ IF idx < Len(matched)
       THEN /\ idx' = idx + 1
            /\ pc' = "copy"
            /\ UNCHANGED callState
       ELSE /\ idx' = idx
            /\ pc' = "walk"
            /\ callState' = "returned"
    /\ UNCHANGED <<world, log, console, left, file_path, file_name, matched,
                   rb, result,
                   callCopies, callLogStart, failure, runGhost, counters>>

(***************************************************************************)
(* rollback(): lines 127-137.                                              *)
(***************************************************************************)
\* lines 131-132: rollback() is called and reads the log
rollback ==
    /\ pc = "idle"
    /\ rollbacks < MaxRollbacks
    /\ rollback_log # ""
    /\ rollbacks' = rollbacks + 1
    /\ commands' = readlines(rollback_log)
    /\ executed' = <<>>
    /\ console' = <<>>
    /\ result' = "running"
    /\ pc' = "rollback"
    /\ NoCall
    /\ afterRun' = (result = "complete")
    /\ fsAtRunStart' = IF result = "complete" THEN fsAtRunStart ELSE fs
    /\ runCopied' = IF result = "complete" THEN runCopied ELSE {}
    /\ UNCHANGED <<world, logs, runs>>

\* line 131: no log_action has created ROLLBACK_LOG yet, and open() raises
\* FileNotFoundError, which nothing catches
rollback_no_log ==
    /\ pc = "idle"
    /\ rollbacks < MaxRollbacks
    /\ rollback_log = ""
    /\ rollbacks' = rollbacks + 1
    /\ commands' = <<>>
    /\ executed' = <<>>
    /\ console' = <<"FileNotFoundError">>
    /\ result' = "crashed"
    /\ NoCall
    /\ afterRun' = FALSE
    /\ fsAtRunStart' = fs
    /\ runCopied' = {}
    /\ UNCHANGED <<world, logs, pc, runs>>

\* lines 134-135: the next command, latest first, goes to the shell
rollback_command ==
    /\ pc = "rollback"
    /\ Len(executed) < Len(commands)
    /\ LET command == strip(reversed(commands)[Len(executed) + 1])
           done == os_system(fs, dirs, command)
       IN  /\ fs' = done.fs
           /\ executed' = Append(executed, [command |-> command,
                                            status |-> done.status])
           /\ console' = IF done.status # 0
                         THEN Append(console, "sh: command failed")
                         ELSE console
           /\ IF os_system_raises(done.status)
              THEN pc' = "idle" /\ result' = "aborted"
              ELSE UNCHANGED <<pc, result>>
    /\ UNCHANGED <<dirs, listing, logs, left, call, commands, callGhost, failure,
                   runGhost, counters>>

\* line 137: every command has been handed to the shell
rollback_complete ==
    /\ pc = "rollback"
    /\ Len(executed) = Len(commands)
    /\ pc' = "idle"
    /\ result' = "rolled_back"
    /\ console' = Append(console, "Rollback complete.")
    /\ UNCHANGED <<world, logs, left, call, rb, callGhost, failure, runGhost,
                   counters>>

Next ==
    \/ main
    \/ process_files
    \/ complete
    \/ copy
    \/ copy_error
    \/ assign_joplin_tags
    \/ assign_joplin_tags_error
    \/ log_action_audit
    \/ log_action_rollback
    \/ rollback
    \/ rollback_no_log
    \/ rollback_command
    \/ rollback_complete

Spec == Init /\ [][Next]_vars

(***************************************************************************)
(* What the claims speak of.                                               *)
(***************************************************************************)
InClassification == pc \in {"walk", "copy", "tag", "log_audit", "log_rollback"}

\* a classification run is going on, or was the latest invocation
RunView ==
    InClassification \/ (pc = "idle" /\ result \in {"complete", "error"})

\* the latest classify_file call is over: it returned or it raised
CallEnded == callState \in {"returned", "raised"}

\* the audit entries the latest classify_file call appended
CallEntries == SubSeq(log, callLogStart + 1, Len(log))

\* the copies and the audit entries of a call that fans file_path out to
\* every framework of matched
FanOutCopies == [i \in 1..Len(matched) |-> dest_path(matched[i], file_name)]

FanOutEntries ==
    [i \in 1..Len(matched) |->
        [action |-> "COPY", src |-> file_path,
         dest |-> dest_path(matched[i], file_name)]]

\* the restore instruction for an audit entry: move its dest back to its src
Inverse(entry) == [ok |-> TRUE, words |-> <<"mv", entry.dest, entry.src>>]

IsoNistPolicy == "iso_27001_and_nist_policy.docx"

Failed(i) == executed[i].status # 0

Diagnostics == {i \in 1..Len(console) : console[i] = "sh: command failed"}

(* C1: a classify_file call on a file that matches N >= 1 frameworks makes *)
(* exactly N copies, one into each matched framework's folder, and appends *)
(* exactly N COPY audit entries, one per matched framework.  (Calls in     *)
(* which the file system refused a copy are left aside.)                   *)
C1_FanOut ==
    (CallEnded /\ Len(matched) >= 1 /\ failure # "copy")
        => /\ callCopies = FanOutCopies
           /\ CallEntries = FanOutEntries

(* C2: rollback() executes the inverses of the audit entries in the exact *)
(* reverse of the order they were recorded in: the i-th command it runs    *)
(* moves the destination of the i-th latest audit entry back to its        *)
(* source; none is skipped, duplicated or out of order.                    *)
C2_ReverseReplay ==
    (pc = "idle" /\ result = "rolled_back")
        => /\ Len(executed) = Len(log)
           /\ \A i \in 1..Len(executed) :
                 ShellWords(executed[i].command)
                     = Inverse(log[Len(log) + 1 - i])

(* C3: a copy that fails for one (file, framework) pair does not stop the *)
(* classification: the other frameworks of the file are still attempted    *)
(* and the remaining files of the walk are still processed.                *)
C3_CopyFailureIsolated ==
    (pc = "idle" /\ result = "error" /\ failure = "copy")
        => /\ idx >= Len(matched)
           /\ left = <<>>

(* C4: a failing note-service operation is not fatal: the copy already    *)
(* made keeps its audit entry and its rollback entry, and classification   *)
(* goes on with the remaining frameworks and files.                        *)
C4_NoteFailureIsolated ==
    (pc = "idle" /\ failure = "joplin")
        => /\ Len(CallEntries) = Len(callCopies)
           /\ Len(readlines(rollback_log)) = Len(log)
           /\ idx >= Len(matched)
           /\ left = <<>>

(* C5: classification never deletes, moves or alters a source file: while *)
(* a run goes on and after it, every file that existed outside the         *)
(* destination root when the run began is still at its path with its       *)
(* content, no file at all has disappeared, and whatever was added or      *)
(* overwritten lies in the folder of a framework under the destination     *)
(* root.                                                                   *)
C5_SourcesUntouched ==
    RunView
        => /\ \A path \in DOMAIN fsAtRunStart :
                 /\ path \in DOMAIN fs
                 /\ ~IsUnder(path, DEST_DIR) => fs[path] = fsAtRunStart[path]
           /\ \A path \in DOMAIN fs :
                 (path \notin DOMAIN fsAtRunStart
                      \/ fs[path] # fsAtRunStart[path])
                     => \E i \in 1..Len(FRAMEWORKS) :
                            dirname(path) = dest_folder(FRAMEWORKS[i].framework)

\* a run has completed after copying one file into two framework folders
C5_Witness ==
    /\ pc = "idle"
    /\ result = "complete"
    /\ \E path \in DOMAIN fsAtRunStart :
          Cardinality({d \in runCopied : fs[d] = fs[path]}) >= 2

(* C6: after a classification run that completes and one rollback() right *)
(* after it, every source file is at its path with its content and none of *)
(* the files the run copied is left under the destination root.            *)
C6_RoundTrip ==
    (pc = "idle" /\ result = "rolled_back" /\ afterRun)
        => /\ \A path \in DOMAIN fsAtRunStart :
                 InTree(path)
                     => path \in DOMAIN fs /\ fs[path] = fsAtRunStart[path]
           /\ \A d \in runCopied : d \notin DOMAIN fs

(* C7: whenever no log_action call is in progress the audit log and the   *)
(* rollback log have the same number of entries, and the i-th rollback     *)
(* entry is the instruction that moves the dest of the i-th audit entry    *)
(* back to its src, for LEAVE entries too.                                 *)
C7_LogsCorrespond ==
    pc # "log_rollback"
        => /\ Len(readlines(rollback_log)) = Len(log)
           /\ \A i \in 1..Len(log) :
                 ShellWords(strip(readlines(rollback_log)[i])) = Inverse(log[i])

(* C8: a classify_file call on a file that matches no framework makes no  *)
(* copy and appends exactly one audit entry, a LEAVE whose source and      *)
(* destination are the file's own path.                                    *)
C8_Leave ==
    (CallEnded /\ matched = <<>>)
        => /\ callCopies = <<>>
           /\ CallEntries =
                  <<[action |-> "LEAVE", src |-> file_path, dest |-> file_path]>>

(* C9 as claimed: the name iso_27001_and_nist_policy.docx matches both    *)
(* ISO and NIST, and a call on it makes two copies and two audit entries.  *)
C9_IsoAndNist ==
    (callState = "returned" /\ file_name = IsoNistPolicy)
        => /\ \E i \in 1..Len(matched) : matched[i] = "ISO"
           /\ \E i \in 1..Len(matched) : matched[i] = "NIST"
           /\ Len(callCopies) = 2
           /\ Len(CallEntries) = 2

(* C9 as amended: the name iso_27001_and_nist_policy.docx matches NIST    *)
(* only; a call on it that returns has made one copy, into the NIST        *)
(* folder, and one COPY audit entry, and nothing is ever copied into the   *)
(* ISO folder.                                                             *)
C9_NistOnly ==
    /\ (callState # "none" /\ file_name = IsoNistPolicy)
           => /\ matched = <<"NIST">>
              /\ callState = "returned"
                     => /\ callCopies = <<dest_path("NIST", IsoNistPolicy)>>
                        /\ CallEntries =
                               <<[action |-> "COPY", src |-> file_path,
                                  dest |-> dest_path("NIST", IsoNistPolicy)]>>
    /\ dest_path("ISO", IsoNistPolicy) \notin DOMAIN fs

\* a call on iso_27001_and_nist_policy.docx has returned
C9_Witness == callState = "returned" /\ file_name = IsoNistPolicy

=============================================================================
